---- MODULE Spec2Model ----
(***************************************************************************)
(* Keyword sentiment scorer (src/analysis.py): the phrase table, the token *)
(* table and the thresholds, load_custom_keywords that merges an override  *)
(* into them, and analyze_sentiment that scores one text against them.     *)
(*                                                                         *)
(* Encoding.  A Python str is a TLA+ string; its characters are taken with *)
(* SubSeq.  TLA+ string literals are ASCII, so three characters of the     *)
(* source and of the inputs are written with ASCII stand-ins that occur    *)
(* nowhere else:                                                           *)
(*     ^  is U+2019 RIGHT SINGLE QUOTATION MARK (the apostrophe the phrase *)
(*        table uses, as in "i^m here for you");                           *)
(*     ~  is U+2011 NON-BREAKING HYPHEN (as in "role~play");               *)
(*     $  is U+017F LATIN SMALL LETTER LONG S, a lower-case letter whose   *)
(*        str.upper() is "S" and whose str.lower() is itself.              *)
(* None of the three is whitespace or matched by [a-zA-Z'].                *)
(* A weight is <<"float", n>> with n the weight in tenths (-2.0 is -20),   *)
(* or <<"str", 0>> for a JSON value that is not a number.  Scores are      *)
(* exact tenths.  A dict or Counter is the sequence of its <<key, value>>  *)
(* items in insertion order.                                               *)
(***************************************************************************)
EXTENDS Integers, Sequences, FiniteSets, TLC

VARIABLES
    PHRASE_CONFIG,  \* dict phrase -> weight, in insertion order
    TOKEN_CONFIG,   \* dict category -> dict word -> weight
    THRESHOLDS,     \* [positive, negative], in tenths
    call,           \* the last call made: [op, arg]
    text,           \* the text of the last analyze_sentiment call (or the one pending)
    result,         \* what the last analyze_sentiment call returned
    raised,         \* the exception the last call raised: [type, arg]
    remainder,      \* the text the last analyze_sentiment call gave to token_score
    spans,          \* per counted phrase match, the input characters it covered
    first,          \* the first analyze_sentiment outcome since the last merge
    merges          \* number of load_custom_keywords calls made

vars == <<PHRASE_CONFIG, TOKEN_CONFIG, THRESHOLDS, call, text, result, raised,
          remainder, spans, first, merges>>

tables == <<PHRASE_CONFIG, TOKEN_CONFIG, THRESHOLDS>>

Float(n) == <<"float", n>>

NotANumber == <<"str", 0>>

IsNumber(w) == w[1] = "float"

BuiltinPhrases ==
    <<
    <<"our little secret", Float(-20)>>,
    <<"special friendship", Float(-18)>>,
    <<"best friends forever", Float(-15)>>,
    <<"i^m here for you", Float(-15)>>,
    <<"love you", Float(-12)>>,
    <<"i care about you", Float(-12)>>,
    <<"are you alone", Float(-18)>>,
    <<"do you want to be famous", Float(-15)>>,
    <<"want to see something cool", Float(-14)>>,
    <<"let me help you with that", Float(-13)>>,
    <<"wanna play a game", Float(-12)>>,
    <<"role~play", Float(-15)>>,
    <<"you^re so mature for your age", Float(-18)>>,
    <<"no one understands you", Float(-15)>>,
    <<"i won^t tell anyone", Float(-17)>>,
    <<"you^re the only one who gets me", Float(-14)>>,
    <<"they won^t believe you", Float(-17)>>,
    <<"where are you from", Float(-15)>>,
    <<"send me a pic", Float(-20)>>,
    <<"what^s your real name", Float(-14)>>,
    <<"can you video chat", Float(-16)>>,
    <<"i won^t tell if you do it", Float(-19)>>,
    <<"prove you^re real", Float(-16)>>,
    <<"i^ll show you mine if you show me yours", Float(-22)>>,
    <<"show me more", Float(-18)>>,
    <<"you^re so pretty", Float(-13)>>,
    <<"you^re so handsome", Float(-13)>>,
    <<"i^m in charge", Float(-14)>>,
    <<"i won^t hurt you", Float(-16)>>,
    <<"if you loved me, you would", Float(-20)>>,
    <<"everyone does it", Float(-12)>>,
    <<"asl", Float(-10)>>,
    <<"gfe", Float(-12)>>,
    <<"cu l8r", Float(-5)>>,
    <<"wyd", Float(-5)>>,
    <<"420", Float(-5)>>,
    <<"2m4u", Float(-8)>>,
    <<"fwb", Float(-10)>>,
    <<"you^re ugly", Float(-15)>>,
    <<"no one likes you", Float(-15)>>,
    <<"kill yourself", Float(-30)>>,
    <<"nobody cares", Float(-18)>>,
    <<"everyone^s laughing at you", Float(-17)>>,
    <<"you deserve it", Float(-16)>>,
    <<"you asked for it", Float(-16)>>,
    <<"don^t tell your parents", Float(-20)>>,
    <<"they^ll get mad if you tell them", Float(-18)>>,
    <<"it^s just a joke", Float(-10)>>
    >>

BuiltinTokens ==
    <<
    <<"positive",
      << <<"protect", Float(15)>>, <<"safe", Float(12)>>, <<"secure", Float(12)>>,
         <<"rescue", Float(15)>>, <<"support", Float(12)>>, <<"report", Float(10)>>,
         <<"trusted", Float(10)>>, <<"education", Float(10)>>,
         <<"awareness", Float(10)>> >> >>,
    <<"negative",
      << <<"naked", Float(-20)>>, <<"undressed", Float(-18)>>, <<"sexting", Float(-17)>>,
         <<"pics", Float(-14)>>, <<"kissing", Float(-12)>>, <<"touching", Float(-13)>>,
         <<"hugs", Float(-8)>>, <<"hot", Float(-10)>>, <<"mature", Float(-10)>>,
         <<"teen", Float(-15)>>, <<"predator", Float(-20)>>, <<"groom", Float(-18)>>,
         <<"abuse", Float(-18)>>, <<"harm", Float(-15)>>, <<"victim", Float(-12)>>,
         <<"bully", Float(-14)>> >> >>,
    <<"neutral",
      << <<"child", Float(0)>>, <<"children", Float(0)>>, <<"online", Float(0)>>,
         <<"internet", Float(0)>>, <<"law", Float(0)>> >> >>
    >>

BuiltinThresholds == [positive |-> 10, negative |-> -10]

-----------------------------------------------------------------------------
(* Python's dict and str primitives, as the code uses them.                *)

Keys(d) == {d[i][1] : i \in 1..Len(d)}

IndexOf(d, k) == CHOOSE i \in 1..Len(d) : d[i][1] = k

Get(d, k) == d[IndexOf(d, k)][2]

\* d[k] = v: an existing key keeps its position, a new key goes last.
SetItem(d, k, v) ==
    IF k \in Keys(d) THEN [d EXCEPT ![IndexOf(d, k)] = <<k, v>>]
    ELSE Append(d, <<k, v>>)

\* d.update(other), item by item in other's order.
RECURSIVE dict_update(_, _)
dict_update(d, other) ==
    IF other = <<>> THEN d
    ELSE dict_update(SetItem(d, Head(other)[1], Head(other)[2]), Tail(other))

Ch(s, i) == SubSeq(s, i, i)

AsciiUpper == "ABCDEFGHIJKLMNOPQRSTUVWXYZ"

AsciiLower == "abcdefghijklmnopqrstuvwxyz"

UpperChars == {Ch(AsciiUpper, i) : i \in 1..Len(AsciiUpper)}

LowerChars == {Ch(AsciiLower, i) : i \in 1..Len(AsciiLower)}

LowerOf == [c \in UpperChars |->
              Ch(AsciiLower, CHOOSE i \in 1..Len(AsciiUpper) : Ch(AsciiUpper, i) = c)]

\* str.lower() of one character: A-Z go to a-z; the long s ($), U+2019 (^),
\* U+2011 (~), digits, punctuation and whitespace are unchanged.
char_lower(c) == IF c \in UpperChars THEN LowerOf[c] ELSE c

RECURSIVE lower(_)
lower(s) == IF s = "" THEN "" ELSE char_lower(Head(s)) \o lower(Tail(s))

\* What \s matches and str.strip() removes, among the characters of the inputs.
Whitespace == {" ", "\t", "\n"}

\* re.sub(r"\s+", " ", s): every maximal run of whitespace becomes one space.
RECURSIVE sub_whitespace(_, _)
sub_whitespace(s, inRun) ==
    IF s = "" THEN ""
    ELSE IF Head(s) \in Whitespace
         THEN (IF inRun THEN "" ELSE " ") \o sub_whitespace(Tail(s), TRUE)
         ELSE Head(s) \o sub_whitespace(Tail(s), FALSE)

\* str.strip()
strip(s) ==
    LET keep == {i \in 1..Len(s) : Ch(s, i) \notin Whitespace} IN
    IF keep = {} THEN ""
    ELSE SubSeq(s, CHOOSE i \in keep : \A j \in keep : i <= j,
                   CHOOSE i \in keep : \A j \in keep : i >= j)

\* normalise without the lower-casing; C8_CaseInsensitive must tell it apart.
normalise_keep_case(t) == strip(sub_whitespace(t, FALSE))

normalise(t) == strip(sub_whitespace(lower(t), FALSE))

\* p occurs in s at position i (the empty string occurs at 1..Len(s)+1).
OccursAt(s, p, i) ==
    /\ i >= 1
    /\ i + Len(p) - 1 <= Len(s)
    /\ SubSeq(s, i, i + Len(p) - 1) = p

\* p in s
Contains(s, p) == \E i \in 1..(Len(s) - Len(p) + 1) : OccursAt(s, p, i)

\* The start positions re.findall(re.escape(p), s) and s.replace(p, ...) find:
\* leftmost first, each next search starting after the previous match.
RECURSIVE match_starts(_, _, _)
match_starts(s, p, i) ==
    IF i + Len(p) - 1 > Len(s) THEN <<>>
    ELSE IF OccursAt(s, p, i)
         THEN <<i>> \o match_starts(s, p, i + (IF Len(p) = 0 THEN 1 ELSE Len(p)))
         ELSE match_starts(s, p, i + 1)

findall(p, s) == match_starts(s, p, 1)

\* s.replace(p, r)
RECURSIVE replace_from(_, _, _, _)
replace_from(s, p, r, i) ==
    IF i > Len(s) THEN (IF Len(p) = 0 THEN r ELSE "")
    ELSE IF Len(p) = 0 THEN r \o Ch(s, i) \o replace_from(s, p, r, i + 1)
    ELSE IF OccursAt(s, p, i) THEN r \o replace_from(s, p, r, i + Len(p))
    ELSE Ch(s, i) \o replace_from(s, p, r, i + 1)

replace(s, p, r) == replace_from(s, p, r, 1)

\* For each character of s.replace(p, " "), the position in the normalised
\* input of the character it is, or 0 for a space the replacement put in.
\* origin gives the same for s itself.
RECURSIVE origin_from(_, _, _, _)
origin_from(origin, s, p, i) ==
    IF i > Len(s) THEN (IF Len(p) = 0 THEN <<0>> ELSE <<>>)
    ELSE IF Len(p) = 0 THEN <<0, origin[i]>> \o origin_from(origin, s, p, i + 1)
    ELSE IF OccursAt(s, p, i) THEN <<0>> \o origin_from(origin, s, p, i + Len(p))
    ELSE <<origin[i]>> \o origin_from(origin, s, p, i + 1)

replace_origin(origin, s, p) == origin_from(origin, s, p, 1)

-----------------------------------------------------------------------------
(* phrase_score, token_score, classify, analyze_sentiment                  *)

\* phrase_score that counts a phrase but leaves its occurrences in remaining;
\* C3_OverlapTieBreak must tell it apart.
RECURSIVE phrase_loop_keep(_, _, _)
phrase_loop_keep(config, k, st) ==
    IF k > Len(config) \/ st.raised # "" THEN st
    ELSE LET phrase == config[k][1]
             weight == config[k][2]
         IN  IF ~Contains(st.remaining, phrase) THEN phrase_loop_keep(config, k + 1, st)
             ELSE LET starts == findall(phrase, st.remaining)
                      occurrences == Len(starts)
                  IN  IF ~IsNumber(weight) THEN [st EXCEPT !.raised = "TypeError"]
                      ELSE phrase_loop_keep(config, k + 1,
                             [score     |-> st.score + weight[2] * occurrences,
                              counts    |-> SetItem(st.counts, phrase, occurrences),
                              remaining |-> st.remaining,
                              raised    |-> "",
                              origin    |-> st.origin,
                              spans     |-> st.spans \cup
                                  {<<k, SubSeq(st.origin, starts[j],
                                               starts[j] + Len(phrase) - 1)>> :
                                       j \in 1..occurrences}])

\* phrase_score that adds a phrase's weight once however often it occurs
\* (score += weight); C9_ScoreMatchesHits must tell it apart.
RECURSIVE phrase_loop_once(_, _, _)
phrase_loop_once(config, k, st) ==
    IF k > Len(config) \/ st.raised # "" THEN st
    ELSE LET phrase == config[k][1]
             weight == config[k][2]
         IN  IF ~Contains(st.remaining, phrase) THEN phrase_loop_once(config, k + 1, st)
             ELSE LET starts == findall(phrase, st.remaining)
                      occurrences == Len(starts)
                  IN  IF ~IsNumber(weight) THEN [st EXCEPT !.raised = "TypeError"]
                      ELSE phrase_loop_once(config, k + 1,
                             [score     |-> st.score + weight[2],
                              counts    |-> SetItem(st.counts, phrase, occurrences),
                              remaining |-> replace(st.remaining, phrase, " "),
                              raised    |-> "",
                              origin    |-> replace_origin(st.origin, st.remaining, phrase),
                              spans     |-> st.spans \cup
                                  {<<k, SubSeq(st.origin, starts[j],
                                               starts[j] + Len(phrase) - 1)>> :
                                       j \in 1..occurrences}])

\* The loop of phrase_score from the k-th item of PHRASE_CONFIG on.  st holds
\* the locals score, counts and remaining, the exception raised so far, and
\* the bookkeeping of which input characters each counted match covered.
RECURSIVE phrase_loop(_, _, _)
phrase_loop(config, k, st) ==
    IF k > Len(config) \/ st.raised # "" THEN st
    ELSE LET phrase == config[k][1]
             weight == config[k][2]
         IN  IF ~Contains(st.remaining, phrase) THEN phrase_loop(config, k + 1, st)
             ELSE LET starts == findall(phrase, st.remaining)
                      occurrences == Len(starts)
                  IN  \* score += weight * occurrences raises TypeError when the
                      \* weight is not a number
                      IF ~IsNumber(weight) THEN [st EXCEPT !.raised = "TypeError"]
                      ELSE phrase_loop(config, k + 1,
                             [score     |-> st.score + weight[2] * occurrences,
                              counts    |-> SetItem(st.counts, phrase, occurrences),
                              remaining |-> replace(st.remaining, phrase, " "),
                              raised    |-> "",
                              origin    |-> replace_origin(st.origin, st.remaining, phrase),
                              spans     |-> st.spans \cup
                                  {<<k, SubSeq(st.origin, starts[j],
                                               starts[j] + Len(phrase) - 1)>> :
                                       j \in 1..occurrences}])

phrase_score(t, config) ==
    phrase_loop(config, 1,
                [score |-> 0, counts |-> <<>>, remaining |-> t, raised |-> "",
                 origin |-> [i \in 1..Len(t) |-> i], spans |-> {}])

TokenChars == UpperChars \cup LowerChars \cup {"'"}

\* re.findall(r"[a-zA-Z']+", s): the maximal runs of token characters, left
\* to right; cur is the run being read.
RECURSIVE token_runs(_, _)
token_runs(s, cur) ==
    IF s = "" THEN (IF cur = "" THEN <<>> ELSE <<cur>>)
    ELSE IF Head(s) \in TokenChars THEN token_runs(Tail(s), cur \o Head(s))
    ELSE (IF cur = "" THEN <<>> ELSE <<cur>>) \o token_runs(Tail(s), "")

tokenize(s) == token_runs(s, "")

\* The inner loop of token_score: the index of the first category, from c on,
\* whose words contain tok (where the code breaks), or 0.
RECURSIVE first_category(_, _, _)
first_category(config, tok, c) ==
    IF c > Len(config) THEN 0
    ELSE IF tok \in Keys(config[c][2]) THEN c
    ELSE first_category(config, tok, c + 1)

\* counts[tok] += 1 on a Counter
Increment(counts, tok) ==
    SetItem(counts, tok, IF tok \in Keys(counts) THEN Get(counts, tok) + 1 ELSE 1)

RECURSIVE token_loop(_, _, _, _)
token_loop(config, tokens, i, st) ==
    IF i > Len(tokens) \/ st.raised # "" THEN st
    ELSE LET tok == tokens[i]
             c == first_category(config, tok, 1)
         IN  IF c = 0 THEN token_loop(config, tokens, i + 1, st)
             ELSE LET weight == Get(config[c][2], tok)
                  IN  \* score += weight raises TypeError when the weight is not
                      \* a number
                      IF ~IsNumber(weight) THEN [st EXCEPT !.raised = "TypeError"]
                      ELSE token_loop(config, tokens, i + 1,
                             [score  |-> st.score + weight[2],
                              counts |-> Increment(st.counts, tok),
                              raised |-> ""])

token_score(t, config) ==
    token_loop(config, tokenize(t), 1, [score |-> 0, counts |-> <<>>, raised |-> ""])

\* classify with strict comparisons; C1_ClassifyThreeWay must tell it apart.
classify_strict(total, thresholds) ==
    IF total > thresholds.positive THEN "positive"
    ELSE IF total < thresholds.negative THEN "negative"
    ELSE "neutral"

\* classify that reads the wrong threshold in its first test;
\* C4_NeutralDefault must tell it apart.
classify_wrong_key(total, thresholds) ==
    IF total >= thresholds.negative THEN "positive"
    ELSE IF total <= thresholds.negative THEN "negative"
    ELSE "neutral"

classify(total, thresholds) ==
    IF total >= thresholds.positive THEN "positive"
    ELSE IF total <= thresholds.negative THEN "negative"
    ELSE "neutral"

NoResult == [sentiment |-> "", score |-> 0, phrase_hits |-> <<>>, token_hits |-> <<>>]

Raises(type) == [returned |-> NoResult, raised |-> type, remainder |-> "", spans |-> {}]

\* analyze_sentiment that gives token_score the normalised text instead of
\* the remainder; C2_PhraseConsumed must tell it apart.
analyze_unstripped(t, phrases, tokens, thresholds) ==
    LET text_norm == normalise(t)
        p == phrase_score(text_norm, phrases)
        tk == token_score(text_norm, tokens)
        total == p.score + tk.score
    IN  IF p.raised # "" THEN Raises(p.raised)
        ELSE IF tk.raised # "" THEN Raises(tk.raised)
        ELSE [returned |-> [sentiment   |-> classify(total, thresholds),
                            score       |-> total,
                            phrase_hits |-> p.counts,
                            token_hits  |-> tk.counts],
              raised |-> "",
              remainder |-> text_norm,
              spans |-> p.spans]

\* analyze_sentiment as a function of the text and the three tables: what it
\* returns, or the exception that leaves it.
analyze(t, phrases, tokens, thresholds) ==
    LET text_norm == normalise(t)
        p == phrase_score(text_norm, phrases)
        tk == token_score(p.remaining, tokens)
        total == p.score + tk.score
    IN  IF p.raised # "" THEN Raises(p.raised)
        ELSE IF tk.raised # "" THEN Raises(tk.raised)
        ELSE [returned |-> [sentiment   |-> classify(total, thresholds),
                            score       |-> total,
                            phrase_hits |-> p.counts,
                            token_hits  |-> tk.counts],
              raised |-> "",
              remainder |-> p.remaining,
              spans |-> p.spans]

-----------------------------------------------------------------------------
(* load_custom_keywords                                                    *)

\* A section of the parsed override (data.get(...)): a JSON object with its
\* items in file order, absent, or a JSON number (a section that is no object).
Object(items) == [kind |-> "object", items |-> items]

Absent == [kind |-> "absent", items |-> <<>>]

Number == [kind |-> "number", items |-> <<>>]

\* The override files the calls are given: whether the path exists, and the
\* phrases and tokens sections of the JSON it holds.
KeywordFiles ==
    <<
    \* 1: well formed; "so" precedes "so hot"; "safe" is also put under negative
    [exists |-> TRUE,
     phrases |-> Object(<< <<"so", Float(-5)>>, <<"so hot", Float(-10)>> >>),
     tokens |-> Object(<< <<"negative", Object(<< <<"creep", Float(-15)>>,
                                                  <<"safe", Float(-10)>> >>)>> >>)],
    \* 2: the unknown category "toxic" between two known ones
    [exists |-> TRUE,
     phrases |-> Object(<< <<"meet me", Float(-15)>> >>),
     tokens |-> Object(<< <<"positive", Object(<< <<"kind", Float(10)>> >>)>>,
                          <<"toxic", Object(<< <<"idiot", Float(-20)>> >>)>>,
                          <<"negative", Object(<< <<"stalker", Float(-15)>> >>)>> >>)],
    \* 3: weights that are strings
    [exists |-> TRUE,
     phrases |-> Object(<< <<"hello", NotANumber>> >>),
     tokens |-> Object(<< <<"negative", Object(<< <<"creep", NotANumber>> >>)>> >>)],
    \* 4: a phrases section that is no object
    [exists |-> TRUE,
     phrases |-> Number,
     tokens |-> Object(<< <<"negative", Object(<< <<"creep", Float(-15)>> >>)>> >>)],
    \* 5: no such file
    [exists |-> FALSE, phrases |-> Absent, tokens |-> Absent],
    \* 6: a tokens section that is no object
    [exists |-> TRUE,
     phrases |-> Object(<< <<"meet me", Float(-15)>> >>),
     tokens |-> Number],
    \* 7: a category whose words are no object, and no phrases section
    [exists |-> TRUE,
     phrases |-> Absent,
     tokens |-> Object(<< <<"neutral", Object(<< <<"school", Float(0)>> >>)>>,
                          <<"negative", Number>> >>)]
    >>

NoError == [type |-> "", arg |-> ""]

Error(type, arg) == [type |-> type, arg |-> arg]

\* The loop with TOKEN_CONFIG.setdefault(cat, {}) in place of the check for an
\* unknown category; C5_UnknownCategory must tell it apart.
RECURSIVE merge_tokens_create(_, _)
merge_tokens_create(config, items) ==
    IF items = <<>> THEN [tokens |-> config, raised |-> NoError]
    ELSE LET cat == Head(items)[1]
             words == Head(items)[2]
         IN  IF words.kind # "object"
             THEN [tokens |-> config, raised |-> Error("TypeError", "")]
             ELSE merge_tokens_create(
                    SetItem(config, cat,
                            dict_update(IF cat \in Keys(config) THEN Get(config, cat)
                                        ELSE <<>>, words.items)),
                    Tail(items))

\* The for loop of load_custom_keywords over the items of the tokens section.
RECURSIVE merge_tokens(_, _)
merge_tokens(config, items) ==
    IF items = <<>> THEN [tokens |-> config, raised |-> NoError]
    ELSE LET cat == Head(items)[1]
             words == Head(items)[2]
         IN  IF cat \notin Keys(config)
             THEN [tokens |-> config, raised |-> Error("ValueError", cat)]
             ELSE IF words.kind # "object"
             THEN [tokens |-> config, raised |-> Error("TypeError", "")]
             ELSE merge_tokens(
                    SetItem(config, cat, dict_update(Get(config, cat), words.items)),
                    Tail(items))

\* load_custom_keywords on file f as a function of the two tables: the tables
\* it leaves and the exception it raises.
load(f, phrases, tokens) ==
    IF ~f.exists
    THEN [phrases |-> phrases, tokens |-> tokens, raised |-> Error("FileNotFoundError", "")]
    ELSE IF f.phrases.kind = "number"
    \* PHRASE_CONFIG.update(5): TypeError, nothing updated
    THEN [phrases |-> phrases, tokens |-> tokens, raised |-> Error("TypeError", "")]
    ELSE LET merged == dict_update(phrases, f.phrases.items) IN
         IF f.tokens.kind = "number"
         \* (5).items(): AttributeError, after the phrases were merged
         THEN [phrases |-> merged, tokens |-> tokens, raised |-> Error("AttributeError", "")]
         ELSE LET m == merge_tokens(tokens, f.tokens.items) IN
              [phrases |-> merged, tokens |-> m.tokens, raised |-> m.raised]

-----------------------------------------------------------------------------
(* The calls                                                               *)

\* The first analyze_sentiment call since the last merge: its text and outcome,
\* and whether a call with another text has been made since.
NoFirst == [set |-> FALSE, text |-> "", returned |-> NoResult, raised |-> NoError,
            others |-> FALSE]

load_custom_keywords(n) ==
    LET out == load(KeywordFiles[n], PHRASE_CONFIG, TOKEN_CONFIG) IN
    /\ PHRASE_CONFIG' = out.phrases
    /\ TOKEN_CONFIG' = out.tokens
    /\ raised' = out.raised
    /\ call' = [op |-> "load_custom_keywords", arg |-> n]
    /\ first' = NoFirst
    /\ merges' = merges + 1
    /\ UNCHANGED <<THRESHOLDS, text, result, remainder, spans>>

\* analyze_sentiment that pops the phrases it matched from PHRASE_CONFIG;
\* C7_ReadOnlyDeterministic must tell it apart.
analyze_sentiment_consuming(t) ==
    LET out == analyze(t, PHRASE_CONFIG, TOKEN_CONFIG, THRESHOLDS) IN
    /\ text' = t
    /\ result' = out.returned
    /\ raised' = Error(out.raised, "")
    /\ remainder' = out.remainder
    /\ spans' = out.spans
    /\ call' = [op |-> "analyze_sentiment", arg |-> 0]
    /\ first' = IF first.set THEN [first EXCEPT !.others = @ \/ t # first.text]
                ELSE [set |-> TRUE, text |-> t, returned |-> out.returned,
                      raised |-> Error(out.raised, ""), others |-> FALSE]
    /\ PHRASE_CONFIG' = SelectSeq(PHRASE_CONFIG,
                            LAMBDA item : item[1] \notin Keys(out.returned.phrase_hits))
    /\ UNCHANGED <<TOKEN_CONFIG, THRESHOLDS, merges>>

analyze_sentiment(t) ==
    LET out == analyze(t, PHRASE_CONFIG, TOKEN_CONFIG, THRESHOLDS) IN
    /\ text' = t
    /\ result' = out.returned
    /\ raised' = Error(out.raised, "")
    /\ remainder' = out.remainder
    /\ spans' = out.spans
    /\ call' = [op |-> "analyze_sentiment", arg |-> 0]
    /\ first' = IF first.set THEN [first EXCEPT !.others = @ \/ t # first.text]
                ELSE [set |-> TRUE, text |-> t, returned |-> out.returned,
                      raised |-> Error(out.raised, ""), others |-> FALSE]
    /\ UNCHANGED <<PHRASE_CONFIG, TOKEN_CONFIG, THRESHOLDS, merges>>

\* main, --kw given: load_custom_keywords(kw_path); an exception ends main.
main_kw ==
    /\ call.op = "main"
    /\ call.arg # 0
    /\ load_custom_keywords(call.arg)

\* main: res = analyze_sentiment(text), once the keywords (if any) are loaded.
main_analyze ==
    /\ \/ call.op = "main" /\ call.arg = 0
       \/ call.op = "load_custom_keywords" /\ raised = NoError
    /\ analyze_sentiment(text)

\* classify on its own, on the total held in result.score.
classify_total ==
    /\ call.op = "classify"
    /\ call.arg = 0
    /\ result' = [result EXCEPT !.sentiment = classify(result.score, THRESHOLDS)]
    /\ call' = [op |-> "classify", arg |-> 1]
    /\ UNCHANGED <<PHRASE_CONFIG, TOKEN_CONFIG, THRESHOLDS, text, raised, remainder,
                   spans, first, merges>>

-----------------------------------------------------------------------------
(* Inputs and specifications                                               *)

MaxMerges == 2

MaxFragments == 3

MaxTotal == 60

\* Texts given to analyze_sentiment by a caller of the module (Spec).
LibraryTexts ==
    {"so hot", "hello there", "a creep is not safe", "you^re so mature for your age",
     "Meet me, stalker"}

\* Pieces the command-line texts are put together from.
Fragments ==
    <<"love you", "^re ugly", "cu", "asl", "l8r", " ", "\t", "Hot">>

RECURSIVE Concats(_)
Concats(n) ==
    IF n = 0 THEN {""}
    ELSE LET shorter == Concats(n - 1) IN
         shorter \cup {s \o Fragments[i] : s \in shorter, i \in 1..Len(Fragments)}

\* Texts given on the command line (SpecMain): every built-in phrase and token
\* word on its own, the texts the documentation names, and every text of up
\* to MaxFragments fragments.
MainTexts ==
    Keys(BuiltinPhrases)
    \cup UNION {Keys(BuiltinTokens[c][2]) : c \in 1..Len(BuiltinTokens)}
    \cup {"our little secret, send me a pic",
          "Please report this to a trusted adult for your safety.",
          "the weather is nice today", "KILL YOURSELF", "$afe", "ki$$ing",
          "meet me", "so hot", "So Hot", "hello there", "report hot", "safe hot",
          "Safe and trusted", "HUGS hugs", "wyd 420"}
    \cup Concats(MaxFragments)

InitTables ==
    /\ PHRASE_CONFIG = BuiltinPhrases
    /\ TOKEN_CONFIG = BuiltinTokens
    /\ THRESHOLDS = BuiltinThresholds
    /\ raised = NoError
    /\ remainder = ""
    /\ spans = {}
    /\ first = NoFirst
    /\ merges = 0

\* The module as imported: the built-in tables, nothing called yet.
Init ==
    /\ InitTables
    /\ call = [op |-> "import", arg |-> 0]
    /\ text = ""
    /\ result = NoResult

\* Any caller: merges (at most MaxMerges of them) and analyses in any order.
Next ==
    \/ \E n \in 1..Len(KeywordFiles) : merges < MaxMerges /\ load_custom_keywords(n)
    \/ \E t \in LibraryTexts : analyze_sentiment(t)

Spec == Init /\ [][Next]_vars

\* main(argv): the text on the command line and the --kw file (0 for none).
InitMain ==
    /\ InitTables
    /\ \E n \in 0..Len(KeywordFiles) : call = [op |-> "main", arg |-> n]
    /\ text \in MainTexts
    /\ result = NoResult

NextMain == main_kw \/ main_analyze

SpecMain == InitMain /\ [][NextMain]_vars

\* classify applied to a total.
InitClassify ==
    /\ InitTables
    /\ call = [op |-> "classify", arg |-> 0]
    /\ text = ""
    /\ \E total \in (-MaxTotal)..MaxTotal : result = [NoResult EXCEPT !.score = total]

NextClassify == classify_total

SpecClassify == InitClassify /\ [][NextClassify]_vars

-----------------------------------------------------------------------------
(* Properties                                                              *)

Returned == call.op = "analyze_sentiment" /\ raised = NoError

Range(seq) == {seq[i] : i \in 1..Len(seq)}

\* The positions at which p occurs in s, overlapping ones included.
Occurrences(s, p) == {j \in 1..(Len(s) - Len(p) + 1) : OccursAt(s, p, j)}

Labels == {"positive", "negative", "neutral"}

WordsOf(phrase) == Range(tokenize(normalise(phrase)))

\* C2 as stated: for every configured phrase P, analyze_sentiment of the text
\* P records no token hit for a word of P.
C2_EveryConfiguredPhrase ==
    (Returned /\ text \in Keys(PHRASE_CONFIG)) =>
        Keys(result.token_hits) \cap WordsOf(text) = {}

\* C2 as amended: for every configured phrase P that is recorded as a phrase
\* hit for the text P, no token hit at all is recorded, and every phrase of
\* the built-in table is so recorded (once) for its own text, whatever
\* override was merged.
C2_PhraseConsumed ==
    (Returned /\ text \in Keys(PHRASE_CONFIG)) =>
        /\ text \in Keys(result.phrase_hits) => result.token_hits = <<>>
        /\ text \in Keys(BuiltinPhrases) =>
               /\ result.phrase_hits = <<<<text, 1>>>>
               /\ result.token_hits = <<>>

\* The phrase with the token word "mature" in it has been analysed.
C2_Witness ==
    /\ Returned
    /\ text = "you^re so mature for your age"
    /\ "mature" \in WordsOf(text)
    /\ result.phrase_hits = <<<<text, 1>>>>
    /\ result.token_hits = <<>>

\* The input characters a counted match covered.
Covered(span) == Range(span) \ {0}

\* C3: phrases are processed in table order, and when an occurrence of a
\* later phrase Q in the normalised text shares characters with a counted
\* match of an earlier phrase P, that occurrence of Q is not counted.
C3_OverlapTieBreak ==
    Returned =>
        LET norm == normalise(text)
            hits == result.phrase_hits
        IN  /\ \A a, b \in 1..Len(hits) :
                   a < b => IndexOf(PHRASE_CONFIG, hits[a][1])
                              < IndexOf(PHRASE_CONFIG, hits[b][1])
            /\ \A m \in spans : \A q \in (m[1] + 1)..Len(PHRASE_CONFIG) :
                   LET Q == PHRASE_CONFIG[q][1] IN
                   \A j \in Occurrences(norm, Q) :
                       Covered(m[2]) \cap (j..(j + Len(Q) - 1)) # {}
                           => <<q, [i \in 1..Len(Q) |-> j + i - 1]>> \notin spans

\* "love you" (earlier) and "you^re ugly" (later) share "you" in the text;
\* only "love you" is counted.
C3_Witness ==
    /\ Returned
    /\ text = "love you^re ugly"
    /\ Occurrences(normalise(text), "you^re ugly") = {6}
    /\ spans = {<<IndexOf(PHRASE_CONFIG, "love you"), <<1, 2, 3, 4, 5, 6, 7, 8>>>>}
    /\ result.phrase_hits = <<<<"love you", 1>>>>

\* No configured phrase is in the normalised text and no token of it is in
\* any category.
NoMatch(t) ==
    LET norm == normalise(t) IN
    /\ \A k \in 1..Len(PHRASE_CONFIG) : ~Contains(norm, PHRASE_CONFIG[k][1])
    /\ \A tok \in Range(tokenize(norm)) :
           \A c \in 1..Len(TOKEN_CONFIG) : tok \notin Keys(TOKEN_CONFIG[c][2])

\* C4: a text with no phrase and no token match, the empty and the all-
\* whitespace text included, is scored without error: score 0, "neutral",
\* empty hit mappings.
C4_NeutralDefault ==
    (call.op = "analyze_sentiment" /\ NoMatch(text)) =>
        /\ raised = NoError
        /\ result = [sentiment |-> "neutral", score |-> 0,
                     phrase_hits |-> <<>>, token_hits |-> <<>>]

\* A text of whitespace only has been analysed.
C4_Witness ==
    /\ call.op = "analyze_sentiment"
    /\ text = " \t "
    /\ NoMatch(text)
    /\ result.sentiment = "neutral"

\* The position of the first item of a tokens section whose category is not
\* in config, or 0.
FirstUnknown(items, config) ==
    IF \A i \in 1..Len(items) : items[i][1] \in Keys(config) THEN 0
    ELSE CHOOSE i \in 1..Len(items) :
             /\ items[i][1] \notin Keys(config)
             /\ \A j \in 1..(i - 1) : items[j][1] \in Keys(config)

\* new is old with the items of other put in: other's values for other's keys,
\* old's values for the rest, no other key.
MergedInto(new, old, other) ==
    /\ Keys(new) = Keys(old) \cup Keys(other)
    /\ \A k \in Keys(other) : Get(new, k) = Get(other, k)
    /\ \A k \in Keys(old) \ Keys(other) : Get(new, k) = Get(old, k)

\* C5: merging an override (otherwise well formed) whose tokens section has
\* a category that is not in the token table raises the error naming the
\* first such category; no category is created and none of its words are
\* added; the phrases and the categories before it are merged, the
\* categories after it are not.
C5_UnknownCategory ==
    [][ call'.op = "load_custom_keywords" =>
          LET f == KeywordFiles[call'.arg]
              items == f.tokens.items
              u == FirstUnknown(items, TOKEN_CONFIG)
          IN  ( /\ f.exists
                /\ f.phrases.kind # "number"
                /\ f.tokens.kind = "object"
                /\ u # 0
                /\ \A i \in 1..(u - 1) : items[i][2].kind = "object" )
              => /\ raised' = Error("ValueError", items[u][1])
                 /\ MergedInto(PHRASE_CONFIG', PHRASE_CONFIG, f.phrases.items)
                 /\ [c \in 1..Len(TOKEN_CONFIG') |-> TOKEN_CONFIG'[c][1]]
                      = [c \in 1..Len(TOKEN_CONFIG) |-> TOKEN_CONFIG[c][1]]
                 /\ \A c \in 1..Len(TOKEN_CONFIG) :
                        LET before == {i \in 1..(u - 1) : items[i][1] = TOKEN_CONFIG[c][1]}
                        IN  IF before = {} THEN TOKEN_CONFIG'[c] = TOKEN_CONFIG[c]
                            ELSE \A i \in before :
                                     MergedInto(TOKEN_CONFIG'[c][2], TOKEN_CONFIG[c][2],
                                                items[i][2].items)
      ]_vars

\* The override with "toxic" between "positive" and "negative" was merged:
\* the error names toxic, its phrase and the positive word are in, the
\* negative word and the toxic word are not.
C5_Witness ==
    /\ call = [op |-> "load_custom_keywords", arg |-> 2]
    /\ raised = Error("ValueError", "toxic")
    /\ "meet me" \in Keys(PHRASE_CONFIG)
    /\ "kind" \in Keys(Get(TOKEN_CONFIG, "positive"))
    /\ "stalker" \notin Keys(Get(TOKEN_CONFIG, "negative"))
    /\ Keys(TOKEN_CONFIG) = {"positive", "negative", "neutral"}

\* C6: every configuration error is raised by the merge call that was given
\* the malformed override; no analyze_sentiment call fails.
C6_NoErrorInScoring ==
    call.op = "analyze_sentiment" => raised = NoError

\* C7: analyze_sentiment leaves the three tables unchanged, and a call with
\* the text of an earlier call (no merge in between) has the same outcome,
\* whatever was analysed in between.
C7_ReadOnlyDeterministic ==
    [][ call'.op = "analyze_sentiment" =>
          /\ tables' = tables
          /\ (first'.set /\ first'.text = text') =>
                 /\ result' = first'.returned
                 /\ raised' = first'.raised
      ]_vars

\* A text was analysed, then another text, then the first text again.
C7_Witness ==
    /\ Returned
    /\ first.set
    /\ first.others
    /\ first.text = text
    /\ text = "so hot"
    /\ result = first.returned
    /\ result.sentiment = "negative"

\* str.upper() and str.swapcase(), with which the re-casings of a text are made.
UpperOf == [c \in LowerChars \cup {"$"} |->
              IF c = "$" THEN "S"
              ELSE Ch(AsciiUpper, CHOOSE i \in 1..Len(AsciiLower) : Ch(AsciiLower, i) = c)]

\* str.upper() of one character: a-z go to A-Z and the long s ($) goes to S.
char_upper(c) == IF c \in DOMAIN UpperOf THEN UpperOf[c] ELSE c

RECURSIVE upper(_)
upper(s) == IF s = "" THEN "" ELSE char_upper(Head(s)) \o upper(Tail(s))

RECURSIVE swapcase(_)
swapcase(s) ==
    IF s = "" THEN ""
    ELSE (IF Head(s) \in UpperChars THEN char_lower(Head(s)) ELSE char_upper(Head(s)))
         \o swapcase(Tail(s))

\* Re-casings of a text: all upper case, all lower case, every case swapped.
Recasings(t) == {upper(t), lower(t), swapcase(t)} \ {t}

SameOutcome(out) ==
    /\ out.raised = raised.type
    /\ out.returned.score = result.score
    /\ out.returned.sentiment = result.sentiment

\* C8 as stated: every re-casing of a text gets the score and the label of
\* the text.
C8_EveryRecasing ==
    call.op = "analyze_sentiment" =>
        \A r \in Recasings(text) :
            SameOutcome(analyze(r, PHRASE_CONFIG, TOKEN_CONFIG, THRESHOLDS))

\* C8 as amended: every re-casing of a text that has the same lower-cased
\* form as the text gets the score and the label of the text.
C8_CaseInsensitive ==
    call.op = "analyze_sentiment" =>
        \A r \in Recasings(text) :
            lower(r) = lower(text) =>
                SameOutcome(analyze(r, PHRASE_CONFIG, TOKEN_CONFIG, THRESHOLDS))

\* The upper-case text of the documentation has been analysed; its lower-
\* case form is a re-casing of it.
C8_Witness ==
    /\ Returned
    /\ text = "KILL YOURSELF"
    /\ "kill yourself" \in Recasings(text)
    /\ result.score = -30
    /\ result.sentiment = "negative"

\* The weight a token hit is credited with: that of the first category, in
\* table order, that contains the token.
FirstCategoryWeight(tok) ==
    LET c == CHOOSE c \in 1..Len(TOKEN_CONFIG) :
                 /\ tok \in Keys(TOKEN_CONFIG[c][2])
                 /\ \A d \in 1..(c - 1) : tok \notin Keys(TOKEN_CONFIG[d][2])
    IN  Get(TOKEN_CONFIG[c][2], tok)[2]

RECURSIVE SumPhraseHits(_)
SumPhraseHits(hits) ==
    IF hits = <<>> THEN 0
    ELSE Get(PHRASE_CONFIG, Head(hits)[1])[2] * Head(hits)[2] + SumPhraseHits(Tail(hits))

RECURSIVE SumTokenHits(_)
SumTokenHits(hits) ==
    IF hits = <<>> THEN 0
    ELSE FirstCategoryWeight(Head(hits)[1]) * Head(hits)[2] + SumTokenHits(Tail(hits))

C10_HitsOccurInInput ==
    Returned =>
        \A i \in 1..Len(result.phrase_hits) :
            Cardinality(Occurrences(normalise(text), result.phrase_hits[i][1]))
                >= result.phrase_hits[i][2]
====
